---- MODULE Spec2Model ----
(***************************************************************************)
(* Model of QEfficient/transformers/models/llama_swiftkv/                  *)
(* modeling_llama_swiftkv.py: the SwiftKV forward pass                     *)
(* (LlamaSwiftKVForCausalLM.forward -> LlamaSwiftKVModel.forward ->        *)
(* LlamaSwiftKVDecoderLayer.forward -> LlamaSwiftKVAttention.forward) and  *)
(* the causal mask builder LlamaSwiftKVModel._update_causal_mask.          *)
(*                                                                         *)
(* Tensors are modelled by what the control flow and the claims depend on: *)
(* their shapes, the symbolic chain of operations that produced a hidden   *)
(* state, and, for masks, their entries.  Layer indices are 0-based as in  *)
(* the source; TLA+ sequences are 1-based, so layer idx lives at idx + 1.  *)
(***************************************************************************)
EXTENDS Integers, Sequences, FiniteSets, TLC

(* ------------------------------ bounds -------------------------------- *)
\* largest num_hidden_layers explored
MaxLayers == 3
\* largest batch size explored
MaxBatch == 2
\* largest number of new tokens in one forward call
MaxChunk == 3
\* largest number of tokens already cached when the session starts
MaxPrior == 1
\* forward calls per session
MaxCalls == 2
\* direct calls of the mask builder: largest sequence_length
MaxSeqLen == 5
\* direct calls of the mask builder: largest cache-seen length / mask width
MaxTarget == 5
\* direct calls of the mask builder: largest first cache position
MaxStart == 1
\* direct calls of the mask builder: side of a supplied 4-D mask
MaxMask4 == 2

(* ------------------------- program constants -------------------------- *)
\* torch.finfo(dtype).min (line 219): the most negative value of the dtype;
\* only its sign and its being distinct from 0 and 1 matter here
MinDtype == -65504

(* ------------------------------ helpers ------------------------------- *)
RECURSIVE SeqMax(_)
\* maximum of a non-empty sequence of integers
SeqMax(s) ==
    IF Len(s) = 1 THEN s[1]
    ELSE LET m == SeqMax(Tail(s)) IN IF s[1] >= m THEN s[1] ELSE m

\* torch.arange(lo, hi) as a sequence
Arange(lo, hi) == [i \in 1..(hi - lo) |-> lo + i - 1]

(* ---------------------------- the KV cache ---------------------------- *)
(* QEffDynamicCache is not part of the source file; it is modelled from    *)
(* the specification's cache contract (an append-only per-layer store).    *)
(* A cache is a sequence over the layers it holds of [k, v], each a        *)
(* sequence along the sequence axis of per-position entries.               *)

EmptyCache == << >>

\* seq_length(): tokens cached (read at layer 0), 0 for a cache with no layers
GetSeqLength(cache) == IF Len(cache) = 0 THEN 0 ELSE Len(cache[1].k)

\* usable_length(layer_id, requested_len): the length the cache holds for
\* that layer at the time of the query
GetUsableLength(cache, new_seq_len, layer_idx) ==
    IF Len(cache) <= layer_idx THEN 0 ELSE Len(cache[layer_idx + 1].k)

\* append new K/V for a layer along the sequence axis
CacheAppend(cache, key_states, value_states, layer_idx) ==
    IF Len(cache) <= layer_idx
    THEN Append(cache, [k |-> key_states, v |-> value_states])
    ELSE [cache EXCEPT ![layer_idx + 1] =
              [k |-> @.k \o key_states, v |-> @.v \o value_states]]

\* write_only(K, V, layer_id, rotary_kwargs): append, returns nothing
WriteOnly(cache, key_states, value_states, layer_idx) ==
    CacheAppend(cache, key_states, value_states, layer_idx)

\* read_only(layer_id, position_ids): fetch the layer's K/V, cache unchanged
ReadOnly(cache, layer_idx) ==
    <<cache[layer_idx + 1].k, cache[layer_idx + 1].v>>

\* to_legacy_format(): a tuple over layers of (key, value) pairs
ToLegacyCache(cache) == [i \in 1..Len(cache) |-> <<cache[i].k, cache[i].v>>]

\* from_legacy_format(): rebuild the structured cache layer by layer
FromLegacyCache(legacy) == [i \in 1..Len(legacy) |-> [k |-> legacy[i][1], v |-> legacy[i][2]]]

(* --------------------------- the causal mask -------------------------- *)
(* A mask is [dtype, batch, rows, cols, val] with val[b][i][j] the entry   *)
(* of batch row b, query row i, key column j (all 1-based here; the key    *)
(* index of column j is j - 1).                                            *)

NoMask == [kind |-> "none"]

\* lines 232-235: full(min_dtype), triu(diagonal=1) unless sequence_length
\* is 1, then multiplied by (arange(target_length) > cache_position[i])
AdditiveCausal(sequence_length, target_length, cache_position) ==
    [i \in 1..sequence_length |->
        [j \in 1..target_length |->
            LET filled == MinDtype
                tri    == IF sequence_length # 1
                          THEN (IF (j - 1) - (i - 1) >= 1 THEN filled ELSE 0)
                          ELSE filled
            IN tri * (IF (j - 1) > cache_position[i] THEN 1 ELSE 0)]]

\* QEfficient.transformers.modeling_attn_mask_utils._create_causal_mask is
\* not part of the source file, and the specification leaves generic mask
\* construction utilities out of scope.  Its result is kept as the call it
\* came from: a causal mask derived from the position ids whose key axis is
\* target_length long.  Its entries are not modelled.
CreateCausalMask(position_ids, target_length) ==
    [kind |-> "created", by |-> "_create_causal_mask", position_ids |-> position_ids, cols |-> target_length]

\* largest entry of a supplied 4-D mask (attention_mask.max())
RECURSIVE MaskMaxOver(_, _)
MaskMaxOver(val, cells) ==
    LET c == CHOOSE x \in cells : TRUE
        e == val[c[1]][c[2]][c[3]]
    IN IF Cardinality(cells) = 1 THEN e
       ELSE LET m == MaskMaxOver(val, cells \ {c}) IN IF e >= m THEN e ELSE m

MaskMax(m) ==
    MaskMaxOver(m.val, (1..m.batch) \X (1..m.rows) \X (1..m.cols))

\* lines 237-244: combine the additive causal mask with a 2-D padding mask
PaddedCausal(additive, attention_mask, batch, sequence_length, target_length) ==
    LET mask_length == attention_mask.cols
    IN [b \in 1..batch |->
          [i \in 1..sequence_length |->
             [j \in 1..target_length |->
                IF j <= mask_length /\ additive[i][j] + attention_mask.val[b][j] = 0
                THEN MinDtype
                ELSE additive[i][j]]]]

\* Faulty variant of Mask4DAccepted: the value check of line 228 is missing.
Mask4DAcceptedUnchecked(attention_mask) == TRUE

\* line 228: a supplied 4-D mask is taken as it is when its maximum is 0
Mask4DAccepted(attention_mask) == MaskMax(attention_mask) = 0

\* lines 245-246: with no attention_mask the matrix built so far is
\* replaced by _create_causal_mask(position_ids, target_length)
NoMaskResult(expanded, position_ids, target_length) == CreateCausalMask(position_ids, target_length)

\* LlamaSwiftKVModel._update_causal_mask (lines 187-259).  Line 196 sets the
\* attention implementation to "eager", so the flash_attention_2 and sdpa
\* branches (197-200, 209-216, 248-257) are never taken.
UpdateCausalMask(attention_mask, batch, sequence_length, cache_position, position_ids, past_seen_tokens, using_static_cache, max_length) ==
    LET target_length ==
            IF using_static_cache THEN max_length
            ELSE IF attention_mask.kind # "none" THEN attention_mask.cols
            ELSE past_seen_tokens
        additive == AdditiveCausal(sequence_length, target_length, cache_position)
        expanded == [kind |-> "4d", dtype |-> "float", batch |-> batch,
                     rows |-> sequence_length, cols |-> target_length,
                     val |-> [b \in 1..batch |-> additive]]
    IN IF attention_mask.kind = "4d"
       THEN IF ~Mask4DAccepted(attention_mask)
            THEN [raised |-> "ValueError", mask |-> NoMask]
            ELSE [raised |-> "none", mask |-> attention_mask]
       ELSE IF attention_mask.kind = "2d"
       THEN \* the slice [:mask_length] of a narrower mask cannot be combined
            \* with the padding mask unless both are empty/one wide
            IF target_length < attention_mask.cols
               /\ ~(target_length = 0 /\ attention_mask.cols = 1)
            THEN [raised |-> "RuntimeError", mask |-> NoMask]
            ELSE [raised |-> "none",
                  mask |-> [expanded EXCEPT !.val =
                               PaddedCausal(additive, attention_mask, batch,
                                            sequence_length, target_length)]]
       ELSE [raised |-> "none",
             mask |-> NoMaskResult(expanded, position_ids, target_length)]

(* ------------------------------- state -------------------------------- *)
VARIABLES
    config,                 \* [num_hidden_layers, num_key_value_layers]
    bsz,                    \* batch size of the session's inputs
    legacy,                 \* the caller's cache in legacy format (<<>> = None)
    calls,                  \* forward calls made so far
    chunks,                 \* chunk lengths of the calls that returned, in order
    pc,                     \* position inside the current forward call
    input,                  \* the call's arguments: q_len, position ids given?, rows
    cache,                  \* past_key_values inside LlamaSwiftKVModel.forward
    past_seen_tokens,       \* line 283
    cache_position,         \* line 284
    position_ids,           \* position ids as used inside the model (line 287)
    causal_mask,            \* line 290
    hidden_states,          \* chain of operations applied to the embeddings
    swiftkv_hidden_states,  \* line 313
    layer_idx,              \* loop variable of the layer loops
    events,                 \* cache accesses of the current call, in order
    attn,                   \* locals of LlamaSwiftKVAttention.forward
    raised,                 \* exception that ended the call, "none" otherwise
    output,                 \* what the call returned
    mpc,                    \* direct mask-builder call: "idle" or "returned"
    mask_call,              \* its arguments
    mask_result             \* its result

sessionVars == <<config, bsz, legacy, calls, chunks>>
frameVars == <<input, cache, past_seen_tokens, cache_position, position_ids, causal_mask, hidden_states, swiftkv_hidden_states, layer_idx, events, attn, raised, output>>
maskVars == <<mpc, mask_call, mask_result>>
vars == <<sessionVars, pc, frameVars, maskVars>>

NumHiddenLayers == config.num_hidden_layers
NumKeyValueLayers == config.num_key_value_layers

\* one step of a hidden state's history
Op(name, layer) == [op |-> name, layer |-> layer]

\* one cache access: a "write" or a "read" of a layer, by which code, with
\* the rotary table length computed for it (-1: not modelled)
Event(ev, layer, by, kv_seq_len) == [ev |-> ev, layer |-> layer, by |-> by, kv_seq_len |-> kv_seq_len]

\* the K (kind "k") or V (kind "v") of one sequence position: which call and
\* chunk slot wrote it, for which position ids (one per batch row), from
\* which hidden state, through which layer's projection, rotated with a
\* rotary table of which length (-1: not rotated / not modelled), by whom
Entry(kind, call, slot, pos, src, proj, rot, by) == [kind |-> kind, call |-> call, slot |-> slot, pos |-> pos, src |-> src, proj |-> proj, rot |-> rot, by |-> by]

\* the position ids of chunk slot `slot`, one per row of position_ids
SlotPos(pids, slot) == [b \in 1..Len(pids) |-> pids[b][slot]]

\* a row of caller position ids: `valid` real positions continuing the
\* cache, then padding (-1)
PositionRow(start, q_len, valid) == [i \in 1..q_len |-> IF i <= valid THEN start + i - 1 ELSE -1]

\* how many positions of a row are real: all, all but one, or none
ValidCounts(q_len) == {q_len, q_len - 1, 0} \cap (0..q_len)

\* the caller's position ids: every sequence of the batch is full except
\* the last, which has `valid` real positions
PositionRows(batch, start, q_len, valid) ==
    [b \in 1..batch |-> PositionRow(start, q_len, IF b = batch THEN valid ELSE q_len)]

\* the cache a caller holds for tokens processed before the session
PriorLegacy(n_layers, batch, prior) ==
    [l \in 1..n_layers |->
        << [s \in 1..prior |-> Entry("k", 0, s, [b \in 1..batch |-> s - 1], << >>, l - 1, -1, "prior")],
           [s \in 1..prior |-> Entry("v", 0, s, [b \in 1..batch |-> s - 1], << >>, l - 1, -1, "prior")] >>]

IdleFrame ==
    /\ input = [q_len |-> 0, given |-> FALSE, rows |-> << >>]
    /\ cache = EmptyCache
    /\ past_seen_tokens = 0
    /\ cache_position = << >>
    /\ position_ids = << >>
    /\ causal_mask = NoMask
    /\ hidden_states = << >>
    /\ swiftkv_hidden_states = << >>
    /\ layer_idx = 0
    /\ events = << >>
    /\ attn = [kv_seq_len |-> -1, key_states |-> << >>, value_states |-> << >>]
    /\ raised = "none"
    /\ output = [kind |-> "none"]

IdleMask ==
    /\ mpc = "idle"
    /\ mask_call = [attention_mask |-> NoMask]
    /\ mask_result = [raised |-> "none", mask |-> NoMask]

Init ==
    /\ config \in {[num_hidden_layers |-> n, num_key_value_layers |-> k] : n \in 1..MaxLayers, k \in 0..MaxLayers}
    /\ config.num_key_value_layers <= config.num_hidden_layers
    /\ bsz \in 1..MaxBatch
    /\ \E prior \in 0..MaxPrior :
          legacy = IF prior = 0 THEN << >> ELSE PriorLegacy(config.num_hidden_layers, bsz, prior)
    /\ calls = 0
    /\ chunks = << >>
    /\ pc = "idle"
    /\ IdleFrame
    /\ IdleMask

(* --------------------- the prefix (standard) layers ------------------- *)
\* QEffLlamaDecoderLayer is not part of the source file; from the
\* specification (4.3 step 5): the layer projects K/V from its own input,
\* appends them to the cache at its own index, attends and applies the MLP.
StandardDecoderLayer(h, pkv, idx, pids, q_len, call) ==
    [hidden |-> Append(h, Op("std_layer", idx)),
     cache  |-> CacheAppend(pkv,
                   [s \in 1..q_len |-> Entry("k", call, s, SlotPos(pids, s), h, idx, -1, "std_layer")],
                   [s \in 1..q_len |-> Entry("v", call, s, SlotPos(pids, s), h, idx, -1, "std_layer")],
                   idx)]

(* ------------------- LlamaSwiftKVForCausalLM.forward ------------------ *)
\* the exception `exc` ends the call: nothing is returned, the caller keeps
\* the cache it passed in
Raise(exc) ==
    /\ pc' = "raised"
    /\ raised' = exc

\* lines 410, 267-297: the call enters LlamaSwiftKVModel.forward, which
\* embeds the tokens, wraps the cache, measures the seen length, derives
\* the cache positions, defaults the position ids and builds the mask
ForwardBegin(q_len, given, valid) ==
    /\ pc = "idle"
    /\ calls < MaxCalls
    /\ LET pkv   == IF Len(legacy) = 0 THEN EmptyCache ELSE FromLegacyCache(legacy)
           seen  == GetSeqLength(pkv)
           cpos  == Arange(seen, seen + q_len)
           rows  == IF given THEN PositionRows(bsz, seen, q_len, valid) ELSE << >>
           pids  == IF given THEN rows ELSE <<cpos>>
           built == UpdateCausalMask(NoMask, bsz, q_len, cpos, pids, seen, FALSE, 0)
       IN /\ input' = [q_len |-> q_len, given |-> given, rows |-> rows]
          /\ cache' = pkv
          /\ past_seen_tokens' = seen
          /\ cache_position' = cpos
          /\ position_ids' = pids
          /\ causal_mask' = built.mask
          /\ hidden_states' = <<Op("embed_tokens", -1)>>
    /\ layer_idx' = 0
    /\ events' = << >>
    /\ pc' = "prefix"
    /\ UNCHANGED <<sessionVars, swiftkv_hidden_states, attn, raised, output, maskVars>>

\* Faulty variant of IsStandardLayer: the threshold is one layer too low.
IsStandardLayerBelowThreshold(idx) == idx < NumKeyValueLayers - 1

\* lines 166-173, 299: the layers below num_key_value_layers are standard
\* decoder layers, run by the prefix loop
IsStandardLayer(idx) == idx < NumKeyValueLayers

\* lines 299-310: one iteration of the prefix loop
PrefixLayer ==
    /\ pc = "prefix"
    /\ IsStandardLayer(layer_idx)
    /\ LET r == StandardDecoderLayer(hidden_states, cache, layer_idx, position_ids, input.q_len, calls + 1)
       IN /\ hidden_states' = r.hidden
          /\ cache' = r.cache
    /\ events' = Append(events, Event("write", layer_idx, "std_layer", -1))
    /\ layer_idx' = layer_idx + 1
    /\ UNCHANGED <<sessionVars, pc, input, past_seen_tokens, cache_position, position_ids, causal_mask, swiftkv_hidden_states, attn, raised, output, maskVars>>

\* lines 312-313: the prefix loop is over; the shared hidden state
NormSwiftKV ==
    /\ pc = "prefix"
    /\ ~IsStandardLayer(layer_idx)
    /\ swiftkv_hidden_states' = Append(hidden_states, Op("norm_swiftkv", -1))
    /\ layer_idx' = NumKeyValueLayers
    /\ pc' = "kv_write"
    /\ UNCHANGED <<sessionVars, input, cache, past_seen_tokens, cache_position, position_ids, causal_mask, hidden_states, events, attn, raised, output, maskVars>>

\* Faulty variant of SwiftKVWriteSource: K/V projected from the layer stack's
\* running hidden state instead of the shared normalized one.
SwiftKVWriteSourceRunning(shared, running) == running

\* lines 320-321: what k_proj_swiftkv / v_proj_swiftkv are applied to
SwiftKVWriteSource(shared, running) == shared

\* Faulty variant of SwiftKVWriteLoopDone: the loop stops one layer early.
SwiftKVWriteLoopDoneEarly(idx) == idx >= NumHiddenLayers - 1

\* line 318: range(num_key_value_layers, num_hidden_layers) is exhausted
SwiftKVWriteLoopDone(idx) == idx >= NumHiddenLayers

\* lines 318-342: one iteration of the shared projection loop: project the
\* shared state with the layer's own K/V weights, size the rotary table by
\* the cache's usable length, rotate the key, write both to the cache
SwiftKVWrite ==
    /\ pc = "kv_write"
    /\ ~SwiftKVWriteLoopDone(layer_idx)
    /\ LET src        == SwiftKVWriteSource(swiftkv_hidden_states, hidden_states)
           q_len      == input.q_len
           kv_seq_len == GetUsableLength(cache, q_len, layer_idx)
           key_states == [s \in 1..q_len |-> Entry("k", calls + 1, s, SlotPos(position_ids, s), src, layer_idx, kv_seq_len, "swiftkv_write")]
           value_states == [s \in 1..q_len |-> Entry("v", calls + 1, s, SlotPos(position_ids, s), src, layer_idx, -1, "swiftkv_write")]
       IN cache' = WriteOnly(cache, key_states, value_states, layer_idx)
    /\ events' = Append(events, Event("write", layer_idx, "swiftkv_write", GetUsableLength(cache, input.q_len, layer_idx)))
    /\ layer_idx' = layer_idx + 1
    /\ UNCHANGED <<sessionVars, pc, input, past_seen_tokens, cache_position, position_ids, causal_mask, hidden_states, swiftkv_hidden_states, attn, raised, output, maskVars>>

\* lines 344-346, 180: the write loop is over and _run_swiftkv_layers
\* starts at the first suffix layer (or returns at once: empty range)
RunSwiftKVLayers ==
    /\ pc = "kv_write"
    /\ SwiftKVWriteLoopDone(layer_idx)
    /\ layer_idx' = NumKeyValueLayers
    /\ pc' = IF NumKeyValueLayers < NumHiddenLayers THEN "attn_qproj" ELSE "export"
    /\ UNCHANGED <<sessionVars, input, cache, past_seen_tokens, cache_position, position_ids, causal_mask, hidden_states, swiftkv_hidden_states, events, attn, raised, output, maskVars>>

\* lines 181-183, 137-145, 75-79: the suffix layer normalizes its input and
\* its attention projects the query.  q_proj_swiftkv is an nn.Linear (line
\* 57) and returns one tensor of shape (bsz, q_len, heads * head_dim);
\* `query, _ = ...` unpacks that tensor along its first axis, which needs
\* exactly two batch rows and leaves query with shape (q_len, heads *
\* head_dim); query.view(bsz, q_len, heads, head_dim) then needs
\* bsz * q_len = q_len elements per head row
SwiftKVAttentionQuery ==
    /\ pc = "attn_qproj"
    /\ IF bsz # 2
       THEN Raise("ValueError")
       ELSE IF bsz * input.q_len # input.q_len
       THEN Raise("RuntimeError")
       ELSE pc' = "attn_read" /\ raised' = raised
    /\ UNCHANGED <<sessionVars, input, cache, past_seen_tokens, cache_position, position_ids, causal_mask, hidden_states, swiftkv_hidden_states, layer_idx, events, attn, output, maskVars>>

\* Faulty variant of SwiftKVAttentionCache: the attention path appends what it
\* read (an update instead of a read-only fetch).
SwiftKVAttentionCacheUpdate(pkv, idx) ==
    CacheAppend(pkv, ReadOnly(pkv, idx)[1], ReadOnly(pkv, idx)[2], idx)

\* line 91: the cache after the attention's access: read_only leaves it as
\* it is
SwiftKVAttentionCache(pkv, idx) == pkv

\* lines 81-93: rotary length from the cache's usable length, then the
\* read-only fetch of this layer's K/V; the query alone is rotated
SwiftKVAttentionRead ==
    /\ pc = "attn_read"
    /\ IF Len(cache) <= layer_idx
       THEN /\ Raise("IndexError")
            /\ UNCHANGED <<attn, events, cache>>
       ELSE /\ attn' = [kv_seq_len |-> GetUsableLength(cache, input.q_len, layer_idx),
                        key_states |-> ReadOnly(cache, layer_idx)[1],
                        value_states |-> ReadOnly(cache, layer_idx)[2]]
            /\ cache' = SwiftKVAttentionCache(cache, layer_idx)
            /\ events' = Append(events, Event("read", layer_idx, "swiftkv_attention", GetUsableLength(cache, input.q_len, layer_idx)))
            /\ pc' = "attn_out"
            /\ raised' = raised
    /\ UNCHANGED <<sessionVars, input, past_seen_tokens, cache_position, position_ids, causal_mask, hidden_states, swiftkv_hidden_states, layer_idx, output, maskVars>>

\* lines 95-119, 147-154, 180-185: scores against the keys read, the mask
\* applied with torch.where (its key axis must equal the keys' or be 1 for
\* the result to multiply with the values), output projection, residuals
\* and MLP; then the next suffix layer, or the end of _run_swiftkv_layers
SwiftKVAttentionOutput ==
    /\ pc = "attn_out"
    /\ IF causal_mask.cols = Len(attn.key_states) \/ causal_mask.cols = 1
       THEN /\ hidden_states' = Append(hidden_states, Op("swiftkv_layer", layer_idx))
            /\ layer_idx' = layer_idx + 1
            /\ pc' = IF layer_idx + 1 < NumHiddenLayers THEN "attn_qproj" ELSE "export"
            /\ raised' = raised
       ELSE /\ Raise("RuntimeError")
            /\ UNCHANGED <<hidden_states, layer_idx>>
    /\ UNCHANGED <<sessionVars, input, cache, past_seen_tokens, cache_position, position_ids, causal_mask, swiftkv_hidden_states, events, attn, output, maskVars>>

\* line 352: the hidden states LlamaSwiftKVModel.forward returns; self.norm
\* (line 174) is not applied anywhere in the file
ExportHidden(h) == h

\* lines 351-352: LlamaSwiftKVModel.forward returns the hidden states and
\* the cache in legacy format
ModelReturn ==
    /\ pc = "export"
    /\ output' = [kind |-> "model", hidden_states |-> ExportHidden(hidden_states), past_key_values |-> ToLegacyCache(cache)]
    /\ pc' = "head"
    /\ UNCHANGED <<sessionVars, input, cache, past_seen_tokens, cache_position, position_ids, causal_mask, hidden_states, swiftkv_hidden_states, layer_idx, events, attn, raised, maskVars>>

\* position_ids.to(torch.int32) (line 411) keeps every value in
\* [-2^31, 2^31); position ids index the rotary table and never leave it
ToInt32(x) == x

\* Faulty variant of ArgMax: the last position of the row.
ArgMaxLast(row) == Len(row) - 1

\* argmax over a row (0-based index of the first largest element)
ArgMax(row) ==
    LET wrapped == [i \in 1..Len(row) |-> ToInt32(row[i])]
        m == SeqMax(wrapped)
    IN (CHOOSE i \in 1..Len(row) : wrapped[i] = m /\ \A j \in 1..(i - 1) : wrapped[j] # m) - 1

\* lines 411-414: the head selects one hidden state per sequence, at the
\* index of the largest position id of the caller's position_ids, and
\* projects it to the vocabulary; the model's cache is passed through
LMHead ==
    /\ pc = "head"
    /\ IF ~input.given
       THEN /\ Raise("AttributeError")
            /\ UNCHANGED <<output, legacy, chunks>>
       ELSE IF input.q_len = 0
       THEN /\ Raise("IndexError")
            /\ UNCHANGED <<output, legacy, chunks>>
       ELSE /\ output' = [kind |-> "logits",
                          hidden_states |-> output.hidden_states,
                          logit_index |-> [b \in 1..Len(input.rows) |-> ArgMax(input.rows[b])],
                          shape |-> [batch |-> Len(input.rows), positions |-> 1, dim |-> "vocab_size"],
                          past_key_values |-> output.past_key_values]
            /\ legacy' = output.past_key_values
            /\ chunks' = Append(chunks, input.q_len)
            /\ pc' = "done"
            /\ raised' = raised
    /\ UNCHANGED <<config, bsz, calls, input, cache, past_seen_tokens, cache_position, position_ids, causal_mask, hidden_states, swiftkv_hidden_states, layer_idx, events, attn, maskVars>>

\* the caller goes on to its next call with the cache it now holds
NextCall ==
    /\ pc \in {"done", "raised"}
    /\ calls' = calls + 1
    /\ pc' = "idle"
    /\ input' = [q_len |-> 0, given |-> FALSE, rows |-> << >>]
    /\ cache' = EmptyCache
    /\ past_seen_tokens' = 0
    /\ cache_position' = << >>
    /\ position_ids' = << >>
    /\ causal_mask' = NoMask
    /\ hidden_states' = << >>
    /\ swiftkv_hidden_states' = << >>
    /\ layer_idx' = 0
    /\ events' = << >>
    /\ attn' = [kv_seq_len |-> -1, key_states |-> << >>, value_states |-> << >>]
    /\ raised' = "none"
    /\ output' = [kind |-> "none"]
    /\ UNCHANGED <<config, bsz, legacy, chunks, maskVars>>

Next ==
    \/ /\ pc = "idle"
       /\ \E q_len \in 0..MaxChunk, given \in BOOLEAN :
             \E valid \in (IF given THEN ValidCounts(q_len) ELSE {q_len}) : ForwardBegin(q_len, given, valid)
    \/ PrefixLayer
    \/ NormSwiftKV
    \/ SwiftKVWrite
    \/ RunSwiftKVLayers
    \/ SwiftKVAttentionQuery
    \/ SwiftKVAttentionRead
    \/ SwiftKVAttentionOutput
    \/ ModelReturn
    \/ LMHead
    \/ NextCall

Spec == Init /\ [][Next]_vars

(* ------------------ direct calls of the mask builder ------------------ *)
(* _update_causal_mask is a method of its own; forward always passes       *)
(* attention_mask=None, so its other branches are exercised by calling it  *)
(* directly, with no mask, a 2-D padding mask or a 4-D mask, and with a    *)
(* dynamic or a static (fixed-capacity) cache.                             *)

\* a 2-D padding mask (1 = attend, 0 = padding): the last batch row is
\* left-padded by `pad` positions
PaddingMask(batch, cols, pad) ==
    [kind |-> "2d", dtype |-> "int", batch |-> batch, rows |-> 1, cols |-> cols,
     val |-> [b \in 1..batch |-> [j \in 1..cols |-> IF b = batch /\ j <= pad THEN 0 ELSE 1]]]

\* a caller's 4-D mask with the given entries
Mask4D(r, c, m) ==
    [kind |-> "4d", dtype |-> "float", batch |-> 1, rows |-> r, cols |-> c, val |-> <<m>>]

\* one call _update_causal_mask(attention_mask, input_tensor, cache_position,
\* position_ids, past_key_values, output_attentions) and its outcome
MaskBuilderCall(am, batch, seq, start, pids, seen, static, max_length) ==
    /\ mpc = "idle"
    /\ mask_call' = [attention_mask |-> am, batch |-> batch, sequence_length |-> seq,
                     cache_position |-> Arange(start, start + seq), position_ids |-> pids,
                     past_seen_tokens |-> seen, using_static_cache |-> static,
                     max_length |-> max_length]
    /\ mask_result' = UpdateCausalMask(am, batch, seq, Arange(start, start + seq), pids, seen, static, max_length)
    /\ mpc' = "returned"
    /\ UNCHANGED <<sessionVars, pc, frameVars>>

MaskBuilderNoMask ==
    /\ mpc = "idle"
    /\ \E batch \in 1..MaxBatch, seq \in 1..MaxSeqLen, start \in 0..MaxStart, seen \in 0..MaxTarget, static \in BOOLEAN :
         \E valid \in ValidCounts(seq), max_length \in (IF static THEN 1..MaxTarget ELSE {0}) :
            MaskBuilderCall(NoMask, batch, seq, start, PositionRows(batch, start, seq, valid), seen, static, max_length)

MaskBuilderPadding ==
    /\ mpc = "idle"
    /\ \E batch \in 1..MaxBatch, seq \in 1..MaxSeqLen, start \in 0..MaxStart, cols \in 0..MaxTarget, pad \in 0..1, static \in BOOLEAN :
         \E max_length \in (IF static THEN 1..MaxTarget ELSE {0}) :
            MaskBuilderCall(PaddingMask(batch, cols, pad), batch, seq, start, PositionRows(batch, start, seq, seq), cols, static, max_length)

MaskBuilder4D ==
    /\ mpc = "idle"
    /\ \E r \in 1..MaxMask4, c \in 1..MaxMask4 :
         \E m \in [1..r -> [1..c -> {MinDtype, 0, 1}]] :
            MaskBuilderCall(Mask4D(r, c, m), 1, r, 0, PositionRows(1, 0, r, r), c, FALSE, 0)

MaskBuilderReturn ==
    /\ mpc = "returned"
    /\ mpc' = "idle"
    /\ mask_call' = [attention_mask |-> NoMask]
    /\ mask_result' = [raised |-> "none", mask |-> NoMask]
    /\ UNCHANGED <<sessionVars, pc, frameVars>>

InitMask ==
    /\ config = [num_hidden_layers |-> 1, num_key_value_layers |-> 1]
    /\ bsz = 1
    /\ legacy = << >>
    /\ calls = 0
    /\ chunks = << >>
    /\ pc = "idle"
    /\ IdleFrame
    /\ IdleMask

NextMask ==
    \/ MaskBuilderNoMask
    \/ MaskBuilderPadding
    \/ MaskBuilder4D
    \/ MaskBuilderReturn

SpecMask == InitMask /\ [][NextMask]_vars

(* ============================== claims ================================ *)

(* ------------------------- the mask builder --------------------------- *)
\* a direct call of the mask builder has returned or raised
MaskCallEnded == mpc = "returned"

\* the call was made with no attention_mask and returned a mask
NoMaskCallReturned ==
    /\ MaskCallEnded
    /\ mask_call.attention_mask.kind = "none"
    /\ mask_result.raised = "none"

\* C6: with no external mask the builder returns the additive matrix it
\* built: for sequence_length = target_length = 5 and cache positions
\* starting at 0 the returned mask holds the dtype minimum at every entry
\* whose key index exceeds the query index and zero elsewhere; for
\* sequence_length = 1 no key index <= the query's cache position is masked.
C6_ReturnedMaskIsAdditiveTriangle ==
    NoMaskCallReturned =>
        LET m == mask_result.mask IN
        /\ m.kind = "4d"
        /\ m.dtype = "float"
        /\ (mask_call.sequence_length = 5 /\ m.cols = 5 /\ mask_call.cache_position[1] = 0) =>
              \A b \in 1..m.batch, i \in 1..5, j \in 1..5 :
                 m.val[b][i][j] = IF j > i THEN MinDtype ELSE 0
        /\ mask_call.sequence_length = 1 =>
              \A b \in 1..m.batch, j \in 1..m.cols :
                 (j - 1) <= mask_call.cache_position[1] => m.val[b][1][j] = 0

\* C8: a supplied 4-D attention mask is returned unchanged when its maximum
\* is 0, and the call fails with ValueError and returns no mask when its
\* maximum is greater than 0.
C8_FourDMaskPassedOrRejected ==
    (MaskCallEnded /\ mask_call.attention_mask.kind = "4d") =>
        LET am == mask_call.attention_mask IN
        /\ MaskMax(am) = 0 => (mask_result.raised = "none" /\ mask_result.mask = am)
        /\ MaskMax(am) > 0 => (mask_result.raised = "ValueError" /\ mask_result.mask.kind = "none")

\* a 4-D mask with a positive entry next to a masked one was rejected
C8_Witness ==
    /\ MaskCallEnded
    /\ mask_call.attention_mask.kind = "4d"
    /\ mask_call.attention_mask.rows = 2
    /\ mask_call.attention_mask.val[1][1][1] = 1
    /\ mask_call.attention_mask.val[1][2][1] = MinDtype
    /\ mask_result.raised = "ValueError"

(* -------------------------- the forward pass -------------------------- *)
\* the layers run by LlamaSwiftKVDecoderLayer (index >= num_key_value_layers)
SuffixLayers == NumKeyValueLayers..(NumHiddenLayers - 1)

\* the places in `events` of the accesses `ev` of layer l
EventsWhere(ev, l) == {i \in 1..Len(events) : events[i].ev = ev /\ events[i].layer = l}

\* control is inside _run_swiftkv_layers, in some suffix layer's attention
InSuffixRun == pc \in {"attn_qproj", "attn_read", "attn_out"}

\* control is past the shared projection loop's first iteration
AfterNormSwiftKV == pc \in {"kv_write", "attn_qproj", "attn_read", "attn_out", "export", "head"}

\* LlamaSwiftKVModel.forward has returned (the call was successful so far)
ModelReturned == pc = "head"

\* tokens the caller's cache held for layer l when the call began
PriorLen(l) == IF Len(legacy) <= l THEN 0 ELSE Len(legacy[l + 1][1])

\* the last n elements of a sequence
LastN(s, n) == SubSeq(s, Len(s) - n + 1, Len(s))

\* the hidden state after the prefix layers and norm_swiftkv, read off the
\* configuration alone
ExpectedSharedState ==
    <<Op("embed_tokens", -1)>> \o [i \in 1..NumKeyValueLayers |-> Op("std_layer", i - 1)] \o <<Op("norm_swiftkv", -1)>>

\* C1: within one forward call every suffix layer's cache write has
\* completed before the first suffix layer's attention (and its read)
\* begins, so a suffix layer's read returns, at its own layer identifier,
\* the K/V written in that same call.
C1_SuffixWritesBeforeReads ==
    /\ InSuffixRun =>
          \A l \in SuffixLayers :
             /\ EventsWhere("write", l) # {}
             /\ Len(cache) > l
             /\ Len(cache[l + 1].k) >= input.q_len
             /\ \A e \in {LastN(cache[l + 1].k, input.q_len)[s] : s \in 1..input.q_len} :
                   e.call = calls + 1 /\ e.by = "swiftkv_write" /\ e.proj = l
    /\ \A i \in 1..Len(events) :
          events[i].ev = "read" =>
             \A l \in SuffixLayers : \E j \in 1..(i - 1) : events[j].ev = "write" /\ events[j].layer = l
    /\ pc = "attn_out" =>
          /\ attn.key_states = cache[layer_idx + 1].k
          /\ attn.value_states = cache[layer_idx + 1].v
          /\ \A s \in 1..input.q_len :
                LastN(attn.key_states, input.q_len)[s].call = calls + 1

\* the first suffix layer's attention begins in a call with new tokens and
\* at least two suffix layers
C1_Witness ==
    /\ pc = "attn_qproj"
    /\ layer_idx = NumKeyValueLayers
    /\ NumHiddenLayers - NumKeyValueLayers >= 2
    /\ input.q_len >= 1
    /\ \A l \in SuffixLayers : EventsWhere("write", l) # {}

\* C2: in every successful forward call each suffix layer receives exactly
\* one cache write, from the model-level projection loop, and exactly one
\* cache read, from its attention; the suffix attention path never writes
\* to the cache and never projects K/V.
C2_OneWriteOneReadPerSuffixLayer ==
    /\ ModelReturned =>
          \A l \in SuffixLayers :
             /\ Cardinality(EventsWhere("write", l)) = 1
             /\ Cardinality(EventsWhere("read", l)) = 1
             /\ \A i \in EventsWhere("write", l) : events[i].by = "swiftkv_write"
             /\ \A i \in EventsWhere("read", l) : events[i].by = "swiftkv_attention"
    /\ \A i \in 1..Len(events) : events[i].by = "swiftkv_attention" => events[i].ev = "read"
    /\ (InSuffixRun \/ pc \in {"export", "head"}) =>
          \A l \in SuffixLayers :
             Len(cache) > l =>
                /\ Len(cache[l + 1].k) = PriorLen(l) + input.q_len
                /\ Len(cache[l + 1].v) = PriorLen(l) + input.q_len
                /\ \A s \in 1..Len(cache[l + 1].k) :
                      cache[l + 1].k[s].call = calls + 1 => cache[l + 1].k[s].by = "swiftkv_write"

\* LlamaSwiftKVModel.forward has returned from a call with two or more
\* suffix layers over a cache that already held tokens
C2_Witness ==
    /\ ModelReturned
    /\ NumHiddenLayers - NumKeyValueLayers >= 2
    /\ PriorLen(0) >= 1
    /\ \A l \in SuffixLayers : EventsWhere("read", l) # {}

\* C3: the K and V written for a suffix layer are a function of the single
\* shared hidden state (the swiftkv-normalized output of the last prefix
\* layer), the layer's own projection, the position ids and the prior
\* cache, and of nothing else: never of a suffix layer's own hidden state.
\* Two runs that agree on those therefore write identical suffix K/V.
C3_SuffixKVFromSharedState ==
    AfterNormSwiftKV =>
       /\ swiftkv_hidden_states = ExpectedSharedState
       /\ \A l \in SuffixLayers :
             EventsWhere("write", l) # {} =>
                LET q == input.q_len
                    p == PriorLen(l)
                IN /\ Len(cache[l + 1].k) >= p + q
                   /\ \A s \in 1..q :
                        /\ cache[l + 1].k[p + s] = Entry("k", calls + 1, s, SlotPos(position_ids, s), ExpectedSharedState, l, p, "swiftkv_write")
                        /\ cache[l + 1].v[p + s] = Entry("v", calls + 1, s, SlotPos(position_ids, s), ExpectedSharedState, l, -1, "swiftkv_write")

\* the projection loop has written two or more suffix layers behind at
\* least one prefix layer, for new tokens, over a non-empty cache
C3_Witness ==
    /\ pc = "kv_write"
    /\ layer_idx = NumHiddenLayers
    /\ NumKeyValueLayers >= 1
    /\ NumHiddenLayers - NumKeyValueLayers >= 2
    /\ input.q_len >= 2
    /\ PriorLen(0) >= 1
    /\ Len(cache) = NumHiddenLayers

\* C4, its mask clause, on which the equivalence of chunked and one-shot
\* decoding rests: the mask built in a call lets every query attend to the
\* keys at positions <= its own position, among all keys the cache holds
\* once the call's writes are done (prior and new); so the mask has a key
\* column for every such key.
C4_MaskAdmitsKeysUpToOwnPosition ==
    pc \in {"prefix", "kv_write", "attn_qproj", "attn_read", "attn_out", "export", "head"} =>
       \A b \in 1..Len(position_ids), i \in 1..input.q_len, j \in 0..(past_seen_tokens + input.q_len - 1) :
          (j <= position_ids[b][i]) => (j < causal_mask.cols)

\* the hidden state a conventional decoder stack returns: embeddings, every
\* layer as a standard layer, the final norm
ConventionalStackHidden ==
    <<Op("embed_tokens", -1)>> \o [i \in 1..NumHiddenLayers |-> Op("std_layer", i - 1)] \o <<Op("norm", -1)>>

\* C5: with num_key_value_layers = num_hidden_layers the suffix is empty (no
\* shared-state write, no SwiftKV read) and the call returns the hidden
\* states, logits and cache of the conventional stack: embed, every layer a
\* standard layer with its own cache write, final norm, head.
C5_EmptySuffixIsConventionalStack ==
    (pc = "done" /\ NumKeyValueLayers = NumHiddenLayers) =>
       /\ \A i \in 1..Len(events) : events[i].by = "std_layer"
       /\ \A l \in 0..(NumHiddenLayers - 1) : Cardinality(EventsWhere("write", l)) = 1
       /\ output.past_key_values = ToLegacyCache(cache)
       /\ output.hidden_states = ConventionalStackHidden

\* C7: the head selects, per sequence, the hidden state at the index where
\* the sequence's position ids are largest ([[0,1,2],[0,1,-1]] selects 2
\* and 1), returns logits for exactly one position per sequence, shape
\* (batch, 1, vocab_size), and passes the model's cache through unchanged.
C7_HeadSelectsMaxPosition ==
    pc = "done" =>
       /\ output.kind = "logits"
       /\ Len(output.logit_index) = bsz
       /\ \A b \in 1..bsz :
             /\ output.logit_index[b] \in 0..(input.q_len - 1)
             /\ input.rows[b][output.logit_index[b] + 1] = SeqMax(input.rows[b])
       /\ input.rows = << <<0, 1, 2>>, <<0, 1, -1>> >> => output.logit_index = <<2, 1>>
       /\ output.shape = [batch |-> bsz, positions |-> 1, dim |-> "vocab_size"]
       /\ output.past_key_values = ToLegacyCache(cache)
       /\ output.hidden_states = hidden_states

\* the head has answered for position ids [[0,1,2],[0,1,-1]]
C7_Witness ==
    /\ pc = "done"
    /\ input.rows = << <<0, 1, 2>>, <<0, 1, -1>> >>
    /\ output.logit_index = <<2, 1>>

\* C9: the hidden state leaving the last layer passes through the final
\* norm before last-token selection and the vocabulary projection: the
\* hidden state under the logits is embed, prefix layers, suffix layers,
\* final norm, in that order.
C9_FinalNormBeforeHead ==
    pc = "done" =>
       output.hidden_states =
          <<Op("embed_tokens", -1)>>
          \o [i \in 1..NumKeyValueLayers |-> Op("std_layer", i - 1)]
          \o [i \in 1..(NumHiddenLayers - NumKeyValueLayers) |-> Op("swiftkv_layer", NumKeyValueLayers + i - 1)]
          \o <<Op("norm", -1)>>

\* C10: for every suffix layer, in a call over q new tokens with p tokens
\* cached for the layer, the rotary table length computed in the attention
\* (after the layer's write) is p + q, the same as the length used in the
\* projection loop when the layer's key was rotated and written.
C10_RotaryLengthIsPriorPlusNew ==
    pc \in {"kv_write", "attn_qproj", "attn_read", "attn_out", "export", "head"} =>
       /\ \A i \in 1..Len(events) :
             events[i].by \in {"swiftkv_write", "swiftkv_attention"} =>
                events[i].kv_seq_len = PriorLen(events[i].layer) + input.q_len
       /\ \A i \in 1..Len(events), j \in 1..Len(events) :
             (events[i].by = "swiftkv_write" /\ events[j].by = "swiftkv_attention" /\ events[i].layer = events[j].layer) =>
                events[i].kv_seq_len = events[j].kv_seq_len

\* all layer identifiers of the configuration
AllLayers == 0..(NumHiddenLayers - 1)

\* the sum of a sequence of chunk lengths
RECURSIVE SeqSum(_)
SeqSum(s) == IF Len(s) = 0 THEN 0 ELSE s[1] + SeqSum(Tail(s))

\* the session started from an empty cache: the caller's cache holds no
\* K/V of tokens processed before the first call
StartedEmpty ==
    \A l \in 1..Len(legacy) : \A s \in 1..Len(legacy[l][1]) : legacy[l][1][s].by # "prior"

\* every forward call made so far returned to the caller
AllCallsReturned == Len(chunks) = calls + (IF pc = "done" THEN 1 ELSE 0)

\* C11: the layers are partitioned by the threshold num_key_value_layers
\* (below: a standard layer that writes its own K/V; at or above: a SwiftKV
\* layer written by the shared projection loop), so once the write loop of
\* a forward call is over every layer identifier in [0, num_hidden_layers)
\* has received exactly one cache write of the chunk's length; hence after
\* any sequence of returned forward calls on an initially empty cache every
\* layer's cached length equals the sum of the chunk lengths.
C11_OneWritePerLayerEqualLengths ==
    /\ (InSuffixRun \/ pc \in {"export", "head"}) =>
          /\ Len(cache) = NumHiddenLayers
          /\ \A l \in AllLayers :
                /\ Cardinality(EventsWhere("write", l)) = 1
                /\ \A i \in EventsWhere("write", l) :
                      events[i].by = (IF l < NumKeyValueLayers THEN "std_layer" ELSE "swiftkv_write")
                /\ Len(cache[l + 1].k) = PriorLen(l) + input.q_len
                /\ Len(cache[l + 1].v) = PriorLen(l) + input.q_len
                /\ \A s \in 1..input.q_len :
                      LET e == LastN(cache[l + 1].k, input.q_len)[s]
                      IN /\ e.call = calls + 1
                         /\ e.slot = s
                         /\ e.proj = l
                         /\ e.by = (IF l < NumKeyValueLayers THEN "std_layer" ELSE "swiftkv_write")
    /\ StartedEmpty =>
          /\ Len(legacy) \in {0, NumHiddenLayers}
          /\ Len(legacy) = 0 => SeqSum(chunks) = 0
          /\ \A l \in 1..Len(legacy) :
                /\ Len(legacy[l][1]) = SeqSum(chunks)
                /\ Len(legacy[l][2]) = SeqSum(chunks)

\* two forward calls with chunks of different lengths have returned, one
\* after the other, on an initially empty cache of two or more layers
C11_Witness ==
    /\ pc = "done"
    /\ StartedEmpty
    /\ AllCallsReturned
    /\ Len(chunks) = 2
    /\ chunks[1] # chunks[2]
    /\ NumHiddenLayers >= 2
    /\ Len(legacy) = NumHiddenLayers
    /\ \A l \in 1..Len(legacy) : Len(legacy[l][1]) = chunks[1] + chunks[2]

====
